---- MODULE Spec2Model ----
(***************************************************************************)
(* A model of python_synth: the Note envelope (synth.py), the Processor    *)
(* that mixes notes into samples (processor.py), and the chunk buffer      *)
(* between the producer thread and the audio callback (helpers.py).        *)
(***************************************************************************)
EXTENDS Integers, Sequences, FiniteSets, TLC

(***************************************************************************)
(* Program constants (python_synth/constants.py, python_synth/synth.py).   *)
(***************************************************************************)
NOTE_ON == 0
NOTE_OFF == 1

OFF == 0
ATTACK == 1
DECAY == 2
SUSTAIN == 3
RELEASE == 4

ANALOGUE_MIN == 0
ANALOGUE_MAX == 256

\* the value Processor.sample_generator adds to the weighted amplitude
SILENCE == 127

(***************************************************************************)
(* Settings (python_synth.settings), scaled down so that every stage of    *)
(* an envelope is a few samples long and the queues are a few items deep.  *)
(***************************************************************************)
SAMPLES_PER_SECOND == 1000
EVENT_QUEUE_MAX_SIZE == 2
AUDIO_STREAM_CHUNK_SIZE == 2
BUFFER_MS == 4

(***************************************************************************)
(* Bounds of the exploration.                                              *)
(***************************************************************************)
\* calls of Processor.note_on and Processor.note_off
MaxEvents == 3
\* samples the Processor yields
MaxTicks == 6

\* the pitches the model plays and releases
MidiNotes == {59, 69}

\* the notes the event source builds: Synth.get_note(midi_note, **env)
NoteChoices ==
    { [midi_note |-> 59,
       env |-> [attack_ms |-> 1, decay_ms |-> 1, release_ms |-> 1,
                sustain_level |-> 200]],
      [midi_note |-> 59,
       env |-> [attack_ms |-> 3, decay_ms |-> 2, release_ms |-> 3,
                sustain_level |-> 255]],
      [midi_note |-> 69,
       env |-> [attack_ms |-> 2, decay_ms |-> 0, release_ms |-> 0,
                sustain_level |-> 256]] }

\* samples drawn from one Note in NoteSpec
MaxNoteSamples == 12

\* the arguments Synth.get_note is called with in NoteSpec
NotePitches == {59, 127}
EnvMilliseconds == {0 - 1, 0, 1, 3, 300}
EnvSustainLevels == {0 - 1, 0, 200, 255, 256, 257}

\* characters after the first in the strings given to letter_note_to_midi_note
MaxModifiers == 2

\* the strings given to letter_note_to_midi_note in HelperSpec
FirstChars == {"A", "B", "C", "D", "E", "F", "G", "a", "H"}
ModifierChars == {"#", "b", "4", "5", "6", "x"}
LetterNotes ==
    { << first >> \o modifiers :
        first \in FirstChars,
        modifiers \in UNION { [1..n -> ModifierChars] : n \in 0..MaxModifiers } }

\* the settings get_pyaudio_stream is run with in HelperSpec
SettingsSamplesPerSecond == {1, 1000, 44100}
SettingsBufferMs == {0, 1, 4, 5, 20}
SettingsChunkSizes == {1, 2, 3, 1024}

\* the keyword arguments of the notes played in RingSpec
RingEnv == [attack_ms |-> 3, decay_ms |-> 2, release_ms |-> 3, sustain_level |-> 255]

VARIABLES
    heap,               \* the Note objects built so far, by identity
    notes_event_queue,  \* Processor._notes_event_queue
    notes,              \* Processor._notes: midi_note -> Note
    notes_on,           \* sample_generator's local set notes_on
    dead_notes,         \* sample_generator's local set dead_notes
    note_sample,        \* sample_generator's local note_sample
    gen_state,          \* "running", or the exception that ended the generator
    sample_out,         \* the sample the generator yielded last
    chunk,              \* samples get_samples has drawn for the current chunk
    chunk_buffer,       \* the queue.Queue between fill_buffer and the callback
    callback_pc,        \* "idle", or "waiting" inside chunk_buffer.get
    num_issued,         \* history: events handed to note_on / note_off
    num_lost,           \* history: events the deque discarded
    applied,            \* history: events the generator popped, in order
    stage_trace,        \* history: per note, the envelope stages it entered
    emitted,            \* history: per note, the samples next() returned
    call_result,        \* what the last call made on a Note by hand did
    helper_call,        \* what the last call of a helpers.py function did
    drawn,              \* history: samples get_samples drew from the generator
    returned,           \* history: the chunks stream_callback returned
    ticks               \* history: samples yielded by the generator

vars == << heap, notes_event_queue, notes, notes_on, dead_notes, note_sample,
           gen_state, sample_out, chunk, chunk_buffer, callback_pc,
           num_issued, num_lost, applied, stage_trace,
           emitted, call_result, helper_call, drawn, returned, ticks >>

EmptyMap == [i \in {} |-> 0]

\* no helpers.py function has been called
NoHelperCall ==
    [call |-> "none", letter_note |-> << >>, midi_note |-> 0, frequency |-> 0,
     settings |-> [samples_per_second |-> 0, buffer_ms |-> 0, chunk_size |-> 0],
     maxsize |-> 0, result |-> "none"]

\* no call has been made on a Note by hand
NoCall == [call |-> "none", midi_note |-> 0, env |-> RingEnv, result |-> "none"]

Max(a, b) == IF a > b THEN a ELSE b

(***************************************************************************)
(* helpers.py: midi_note_to_frequency, 27.5 * 2 ** ((midi_note - 21) / 12), *)
(* in millihertz rounded down: the twelve semitones above 27.5 Hz are a    *)
(* table in units of 10 microhertz, and an octave doubles or halves them.  *)
(***************************************************************************)
SemitoneFrequencies ==
    << 2750000, 2913524, 3086771, 3270320, 3464783, 3670810,
       3889087, 4120344, 4365353, 4624930, 4899943, 5191309 >>

midi_note_to_frequency(midi_note) ==
    LET semitone == (midi_note - 21) % 12
        octave == (midi_note - 21) \div 12
    IN  IF octave >= 0
        THEN (SemitoneFrequencies[semitone + 1] * 2 ^ octave) \div 100
        ELSE SemitoneFrequencies[semitone + 1] \div (100 * 2 ^ (0 - octave))

\* constants.py: LETTER_TO_MIDI_NOTE_MAP
LETTER_TO_MIDI_NOTE_MAP ==
    ("C" :> 60) @@ ("C#" :> 61) @@ ("D" :> 62) @@ ("D#" :> 63) @@ ("E" :> 64)
    @@ ("F" :> 65) @@ ("F#" :> 66) @@ ("G" :> 67) @@ ("G#" :> 68) @@ ("A" :> 69)
    @@ ("A#" :> 70) @@ ("B" :> 71)

\* str.upper() of one character of the alphabet the model uses
str_upper(char) ==
    CASE char = "a" -> "A"
      [] char = "b" -> "B"
      [] char = "x" -> "X"
      [] OTHER -> char

\* the characters int() turns into a number
Digits == {"0", "1", "2", "3", "4", "5", "6", "7", "8", "9"}

\* int(modifier) for a digit
int_of_digit(char) ==
    CASE char = "0" -> 0 [] char = "1" -> 1 [] char = "2" -> 2 [] char = "3" -> 3
      [] char = "4" -> 4 [] char = "5" -> 5 [] char = "6" -> 6 [] char = "7" -> 7
      [] char = "8" -> 8 [] char = "9" -> 9

\* the loop body of letter_note_to_midi_note with the flat left out
apply_modifier_ignores_flat(midi_note, modifier) ==
    IF modifier = "b" THEN midi_note
    ELSE IF modifier = "#" THEN midi_note + 1
    ELSE midi_note + ((12 * int_of_digit(modifier)) - (12 * 5))

\* the loop body of letter_note_to_midi_note, for a modifier that is a flat,
\* a sharp or a digit
apply_modifier(midi_note, modifier) ==
    IF modifier = "b" THEN midi_note - 1
    ELSE IF modifier = "#" THEN midi_note + 1
    ELSE midi_note + ((12 * int_of_digit(modifier)) - (12 * 5))

\* the loop "for modifier in note_part"
RECURSIVE apply_modifiers(_, _)
apply_modifiers(midi_note, modifiers) ==
    IF modifiers = << >> THEN midi_note
    ELSE apply_modifiers(apply_modifier(midi_note, Head(modifiers)), Tail(modifiers))

\* letter_note_to_midi_note with the octaves counted from 4 instead of 5
letter_note_to_midi_note_from_octave_4(letter_note) ==
    IF letter_note = << >>
    THEN [result |-> "StopIteration", midi_note |-> 0]
    ELSE IF str_upper(Head(letter_note)) \notin DOMAIN LETTER_TO_MIDI_NOTE_MAP
    THEN [result |-> "KeyError", midi_note |-> 0]
    ELSE IF \E i \in 2..Len(letter_note) : letter_note[i] \notin {"b", "#"} \cup Digits
    THEN [result |-> "ValueError", midi_note |-> 0]
    ELSE [result |-> "int",
          midi_note |-> apply_modifiers(
                            LETTER_TO_MIDI_NOTE_MAP[str_upper(Head(letter_note))],
                            Tail(letter_note))
                        + 12 * Cardinality({ i \in 2..Len(letter_note) :
                                               letter_note[i] \in Digits })]

\* helpers.py: letter_note_to_midi_note, for a string given as the sequence
\* of its characters: the number returned, or the exception raised
letter_note_to_midi_note(letter_note) ==
    IF letter_note = << >>
    THEN [result |-> "StopIteration", midi_note |-> 0]
    ELSE IF str_upper(Head(letter_note)) \notin DOMAIN LETTER_TO_MIDI_NOTE_MAP
    THEN [result |-> "KeyError", midi_note |-> 0]
    ELSE IF \E i \in 2..Len(letter_note) : letter_note[i] \notin {"b", "#"} \cup Digits
    THEN [result |-> "ValueError", midi_note |-> 0]
    ELSE [result |-> "int",
          midi_note |-> apply_modifiers(
                            LETTER_TO_MIDI_NOTE_MAP[str_upper(Head(letter_note))],
                            Tail(letter_note))]

\* synth.py: int(math.sin(normalized_idx * 2 * math.pi) * 127) for
\* normalized_idx = sample_idx / samples_per_cycle, as a table
scaled_amplitude(sample_idx, samples_per_cycle) ==
    CASE samples_per_cycle = 1 -> 0
      [] samples_per_cycle = 2 -> 0
      [] samples_per_cycle = 3 -> << 0, 109, 0 - 109 >>[sample_idx + 1]
      [] OTHER -> << 0, 127, 0, 0 - 127 >>[(sample_idx % 4) + 1]

\* synth.py: samples_per_cycle of Synth.get_note's sample_generator
samples_per_cycle(midi_note) ==
    (SAMPLES_PER_SECOND * 1000) \div midi_note_to_frequency(midi_note)

\* synth.py: sample_amplitude_array of Synth.get_note's sample_generator
sample_amplitude_array(midi_note) ==
    [i \in 1..samples_per_cycle(midi_note) |->
        scaled_amplitude(i - 1, samples_per_cycle(midi_note))]

(***************************************************************************)
(* synth.py: class Note.                                                   *)
(***************************************************************************)
num_attack_samples(note) == (note.attack_ms * SAMPLES_PER_SECOND) \div 1000
num_decay_samples(note) == (note.decay_ms * SAMPLES_PER_SECOND) \div 1000
num_release_samples(note) == (note.release_ms * SAMPLES_PER_SECOND) \div 1000
decay_start_idx(note) == num_attack_samples(note) + 1
sustain_start_idx(note) == decay_start_idx(note) + num_decay_samples(note)

\* validators.py: validate_milliseconds raises iff this is FALSE
validate_milliseconds(value) == ~(value < 0)

\* validators.py: validate_analogue raises iff this is FALSE
validate_analogue(value) == ~(value < ANALOGUE_MIN \/ value > ANALOGUE_MAX)

\* an attack ramp twice as steep, which passes ANALOGUE_MAX
attack_volume_map_overshoots(num_attack) ==
    [sample_idx \in 0..(num_attack - 1) |->
        2 * sample_idx * (ANALOGUE_MAX \div num_attack)]

\* the entries the attack loops of _get_sample_idx_volume_map write
attack_volume_map(num_attack) ==
    IF num_attack > ANALOGUE_MAX
    THEN LET samples_per_volume_increase == num_attack \div ANALOGUE_MAX
         IN  [sample_idx \in { volume * samples_per_volume_increase :
                                  volume \in 0..ANALOGUE_MAX } |->
                 sample_idx \div samples_per_volume_increase]
    ELSE LET volume_increase_per_sample == ANALOGUE_MAX \div num_attack
         IN  [sample_idx \in 0..(num_attack - 1) |->
                 sample_idx * volume_increase_per_sample]

\* the entries the decay loops of _get_sample_idx_volume_map write
decay_volume_map(num_attack, num_decay, sustain_level) ==
    LET attack_sustain_volume_diff == ANALOGUE_MAX - sustain_level
    IN  IF attack_sustain_volume_diff = 0 THEN EmptyMap
        ELSE IF num_decay > attack_sustain_volume_diff
        THEN LET samples_per_volume_decrease ==
                     num_decay \div attack_sustain_volume_diff
             IN  [sample_idx \in
                     { samples_per_volume_decrease * (ANALOGUE_MAX - volume)
                         + num_attack : volume \in sustain_level..ANALOGUE_MAX } |->
                     ANALOGUE_MAX
                       - ((sample_idx - num_attack) \div samples_per_volume_decrease)]
        ELSE LET volume_decrease_per_sample ==
                     attack_sustain_volume_diff \div num_decay
             IN  [sample_idx \in 0..(num_decay - 1) |->
                     ANALOGUE_MAX - (sample_idx * volume_decrease_per_sample)]

\* TRUE iff _get_sample_idx_volume_map divides by zero
sample_idx_volume_map_raises(num_attack, num_decay, sustain_level) ==
    \/ num_attack = 0
    \/ /\ ANALOGUE_MAX - sustain_level # 0
       /\ ~(num_decay > ANALOGUE_MAX - sustain_level)
       /\ num_decay = 0

\* Note._get_sample_idx_volume_map: the decay entries are written last
get_sample_idx_volume_map(num_attack, num_decay, sustain_level) ==
    decay_volume_map(num_attack, num_decay, sustain_level)
        @@ attack_volume_map(num_attack)

\* TRUE iff _get_release_sample_idx_volume_map divides by zero
release_sample_idx_volume_map_raises(release_ms, start_volume) ==
    LET num_release == (release_ms * SAMPLES_PER_SECOND) \div 1000
    IN  start_volume # 0 /\ ~(num_release > start_volume) /\ num_release = 0

\* Note._get_release_sample_idx_volume_map
get_release_sample_idx_volume_map(release_ms, start_volume) ==
    LET num_release == (release_ms * SAMPLES_PER_SECOND) \div 1000
    IN  IF start_volume = 0 THEN EmptyMap
        ELSE IF num_release > start_volume
        THEN LET samples_per_volume_decrease == num_release \div start_volume
             IN  [sample_idx \in { samples_per_volume_decrease * (start_volume - volume) :
                                      volume \in 0..start_volume } |->
                     start_volume - (sample_idx \div samples_per_volume_decrease)]
        ELSE LET volume_decrease_per_sample == start_volume \div num_release
             IN  [sample_idx \in 0..(num_release - 1) |->
                     start_volume - (sample_idx * volume_decrease_per_sample)]

\* the Note attributes set by attrs' __init__ and by __attrs_post_init__
new_note(midi_note, env) ==
    [ midi_note |-> midi_note,
      attack_ms |-> env.attack_ms,
      decay_ms |-> env.decay_ms,
      release_ms |-> env.release_ms,
      sustain_level |-> env.sustain_level,
      sample_idx |-> 0,
      release_sample_idx |-> 0,
      volume |-> 0,
      adsr_status |-> OFF,
      release_sample_idx_volume_map |-> EmptyMap,
      cursor |-> 0 ]

\* Synth.get_note: "Note", or the exception the constructor raises
get_note_result(midi_note, env) ==
    IF ~( validate_milliseconds(env.attack_ms)
          /\ validate_milliseconds(env.decay_ms)
          /\ validate_milliseconds(env.release_ms)
          /\ validate_analogue(env.sustain_level) )
    THEN "SynthValidationError"
    ELSE IF sample_idx_volume_map_raises(
                (env.attack_ms * SAMPLES_PER_SECOND) \div 1000,
                (env.decay_ms * SAMPLES_PER_SECOND) \div 1000,
                env.sustain_level)
    THEN "ZeroDivisionError"
    ELSE "Note"

\* the fields attrs compares and hashes (every attribute without cmp=False)
note_key(note) ==
    << note.midi_note, note.attack_ms, note.decay_ms, note.release_ms,
       note.sustain_level >>

\* a set_key_down that leaves the note as it is
set_key_down_does_nothing(note) == note

\* Note.set_key_down
set_key_down(note) == [note EXCEPT !.adsr_status = ATTACK]

\* a set_key_up that starts the release at sustain_level
set_key_up_from_sustain_level(note) ==
    [note EXCEPT !.adsr_status = RELEASE,
                 !.release_sample_idx_volume_map =
                     get_release_sample_idx_volume_map(note.release_ms,
                                                       note.sustain_level)]

\* Note.set_key_up, when the release map can be computed
set_key_up(note) ==
    [note EXCEPT !.adsr_status = RELEASE,
                 !.release_sample_idx_volume_map =
                     get_release_sample_idx_volume_map(note.release_ms, note.volume)]

\* _get_new_adsr_status with the targets of ATTACK and DECAY exchanged
get_new_adsr_status_exchanged(old_adsr_status, sample_idx, release_sample_idx, decay_start, sustain_start, num_release) ==
    IF old_adsr_status = ATTACK /\ sample_idx = decay_start
    THEN [kind |-> "status", status |-> SUSTAIN]
    ELSE IF old_adsr_status = DECAY /\ sample_idx = sustain_start
    THEN [kind |-> "status", status |-> DECAY]
    ELSE IF old_adsr_status = RELEASE /\ release_sample_idx = num_release
    THEN [kind |-> "status", status |-> OFF]
    ELSE IF old_adsr_status = OFF
    THEN [kind |-> "SynthError", status |-> OFF]
    ELSE [kind |-> "None", status |-> old_adsr_status]

\* Note._get_new_adsr_status
get_new_adsr_status(old_adsr_status, sample_idx, release_sample_idx, decay_start, sustain_start, num_release) ==
    IF old_adsr_status = ATTACK /\ sample_idx = decay_start
    THEN [kind |-> "status", status |-> DECAY]
    ELSE IF old_adsr_status = DECAY /\ sample_idx = sustain_start
    THEN [kind |-> "status", status |-> SUSTAIN]
    ELSE IF old_adsr_status = RELEASE /\ release_sample_idx = num_release
    THEN [kind |-> "status", status |-> OFF]
    ELSE IF old_adsr_status = OFF
    THEN [kind |-> "SynthError", status |-> OFF]
    ELSE [kind |-> "None", status |-> old_adsr_status]

\* Note._get_new_volume
get_new_volume(sample_idx, release_sample_idx, sample_idx_volume_map, release_sample_idx_volume_map, adsr_status, sustain_level) ==
    IF sample_idx \in DOMAIN sample_idx_volume_map
    THEN [kind |-> "volume", volume |-> sample_idx_volume_map[sample_idx]]
    ELSE IF release_sample_idx \in DOMAIN release_sample_idx_volume_map
    THEN [kind |-> "volume",
          volume |-> release_sample_idx_volume_map[release_sample_idx]]
    ELSE IF adsr_status = OFF
    THEN [kind |-> "SynthError", volume |-> 0]
    ELSE [kind |-> "None", volume |-> 0]

\* Note.next: the note afterwards and what the call did: kind "NoteSample"
\* with the sample returned, the exception raised, or "Hang" when
\* next(self.sample_generator) loops over an empty sample_amplitude_array
\* and never yields
Note_next(note) ==
    LET table == sample_amplitude_array(note.midi_note)
        sample == IF Len(table) = 0 THEN 0 ELSE table[note.cursor + 1]
        volume == note.volume
        release_idx == IF note.adsr_status = RELEASE
                       THEN note.release_sample_idx + 1
                       ELSE note.release_sample_idx
        idx == note.sample_idx + 1
        stepped == [note EXCEPT !.cursor = IF Len(table) = 0 THEN 0
                                            ELSE (note.cursor + 1) % Len(table),
                                !.release_sample_idx = release_idx,
                                !.sample_idx = idx]
        next_adsr_status ==
            get_new_adsr_status(note.adsr_status, idx, release_idx,
                                decay_start_idx(note), sustain_start_idx(note),
                                num_release_samples(note))
        status == IF next_adsr_status.kind = "status"
                  THEN next_adsr_status.status ELSE note.adsr_status
        next_volume ==
            get_new_volume(idx, release_idx,
                           get_sample_idx_volume_map(num_attack_samples(note),
                                                     num_decay_samples(note),
                                                     note.sustain_level),
                           note.release_sample_idx_volume_map, status,
                           note.sustain_level)
    IN  IF Len(table) = 0
        THEN [kind |-> "Hang", note |-> note, amplitude |-> 0, volume |-> 0]
        ELSE IF next_adsr_status.kind = "SynthError"
        THEN [kind |-> "SynthError", note |-> stepped,
              amplitude |-> 0, volume |-> 0]
        ELSE IF next_adsr_status.kind = "status" /\ status = OFF
        THEN [kind |-> "StopIteration",
              note |-> [stepped EXCEPT !.adsr_status = OFF],
              amplitude |-> 0, volume |-> 0]
        ELSE IF next_volume.kind = "SynthError"
        THEN [kind |-> "SynthError",
              note |-> [stepped EXCEPT !.adsr_status = status],
              amplitude |-> 0, volume |-> 0]
        ELSE [kind |-> "NoteSample",
              note |-> [stepped EXCEPT
                          !.adsr_status = status,
                          !.volume = IF next_volume.kind = "volume"
                                     THEN next_volume.volume ELSE note.volume],
              amplitude |-> sample, volume |-> volume]

(***************************************************************************)
(* Python containers.                                                      *)
(***************************************************************************)
\* an assignment that leaves the new entry alone in the dict
dict_setitem_alone(dict, key, value) == (key :> value)

\* self._notes[key] = value
dict_setitem(dict, key, value) == (key :> value) @@ dict

\* self._notes after self._notes.pop(key), for a key that is there
dict_pop(dict, key) == [k \in DOMAIN dict \ {key} |-> dict[k]]

\* set.add(note): a set holds one of any two notes that compare equal
set_add(set, id, h) ==
    IF \E m \in set : note_key(h[m]) = note_key(h[id]) THEN set ELSE set \cup {id}

\* the purge with the removal left out: notes_on stays as it is
clear_dead_notes_removes_nothing(on, dead, h) == on

\* notes_on after "for note in dead_notes: notes_on.remove(note)": remove
\* takes out the member that compares equal to note
clear_dead_notes(on, dead, h) ==
    { m \in on : \A d \in dead : note_key(h[m]) # note_key(h[d]) }

\* a bounded queue that refuses the new item when full
deque_append_drops_newest(queue, event) ==
    IF Len(queue) = EVENT_QUEUE_MAX_SIZE THEN queue ELSE Append(queue, event)

\* deque.append on a deque built with maxlen=EVENT_QUEUE_MAX_SIZE
deque_append(queue, event) ==
    IF Len(queue) = EVENT_QUEUE_MAX_SIZE
    THEN Append(Tail(queue), event)
    ELSE Append(queue, event)

\* deque.pop, which takes the item from the right end
deque_pop(queue) ==
    [item |-> queue[Len(queue)], rest |-> SubSeq(queue, 1, Len(queue) - 1)]

\* deque.popleft: the item returned, and the deque afterwards
deque_popleft(queue) == [item |-> Head(queue), rest |-> Tail(queue)]

\* the orders in which a for loop may go through a set
Orders(set) ==
    { order \in [1..Cardinality(set) -> set] :
        \A i, j \in 1..Cardinality(set) : i # j => order[i] # order[j] }

\* helpers.py get_pyaudio_stream: buffer_chunks as computed from the settings
\* (int() truncates the float product, // is floor division)
get_buffer_chunks(samples_per_second, buffer_ms, chunk_size) ==
    LET scaled == (samples_per_second * buffer_ms) \div 1000
        buffer_samples == IF scaled = 0 THEN 1 ELSE scaled
        chunks == buffer_samples \div chunk_size
    IN  IF chunks = 0 THEN 1 ELSE chunks

\* helpers.py get_pyaudio_stream: maxsize of chunk_buffer
buffer_chunks ==
    get_buffer_chunks(SAMPLES_PER_SECOND, BUFFER_MS, AUDIO_STREAM_CHUNK_SIZE)

\* the notes the next pass of the play loop goes through: those in notes_on
\* that the purge at the head of the pass will not remove
live_voices == notes_on \ dead_notes

\* a get that takes the chunk put last
Queue_get_newest(queue) ==
    [item |-> queue[Len(queue)], rest |-> SubSeq(queue, 1, Len(queue) - 1)]

\* queue.Queue.get: the chunk put first, and the queue afterwards
Queue_get(queue) == [item |-> Head(queue), rest |-> Tail(queue)]

\* a queue built without maxsize, which is never full
Queue_never_full(queue) == FALSE

\* queue.Queue(maxsize=buffer_chunks): put(block=True) waits while this holds
Queue_full(queue) == Len(queue) >= buffer_chunks

(***************************************************************************)
(* History of the envelope stages, kept beside the heap.                   *)
(***************************************************************************)
\* the traces once the heap is h and set_key_down or set_key_up ran on `keyed`
TraceAfter(h, keyed) ==
    [id \in DOMAIN h |->
        IF id \notin DOMAIN heap THEN << h[id].adsr_status >>
        ELSE IF id \in keyed \/ h[id].adsr_status # heap[id].adsr_status
        THEN Append(stage_trace[id], h[id].adsr_status)
        ELSE stage_trace[id]]

Init ==
    /\ heap = << >>
    /\ notes_event_queue = << >>
    /\ notes = EmptyMap
    /\ notes_on = {}
    /\ dead_notes = {}
    /\ note_sample = [bound |-> FALSE, amplitude |-> 0, volume |-> 0]
    /\ gen_state = "running"
    /\ sample_out = SILENCE
    /\ chunk = << >>
    /\ chunk_buffer = << >>
    /\ callback_pc = "idle"
    /\ num_issued = 0
    /\ num_lost = 0
    /\ applied = << >>
    /\ stage_trace = << >>
    /\ emitted = << >>
    /\ call_result = NoCall
    /\ helper_call = NoHelperCall
    /\ drawn = << >>
    /\ returned = << >>
    /\ ticks = 0

(***************************************************************************)
(* The event source thread (keyboard.py run, profiler.py run).             *)
(***************************************************************************)
\* note = synth.get_note(midi_note, **env); processor.note_on(note)
NoteOn(midi_note, env) ==
    /\ num_issued < MaxEvents
    /\ get_note_result(midi_note, env) = "Note"
    /\ heap' = Append(heap, new_note(midi_note, env))
    /\ notes_event_queue' =
           deque_append(notes_event_queue,
                        [event_type |-> NOTE_ON, note |-> Len(heap) + 1,
                         midi_note |-> midi_note, seq |-> num_issued + 1])
    /\ num_issued' = num_issued + 1
    /\ num_lost' = IF Len(notes_event_queue) = EVENT_QUEUE_MAX_SIZE
                   THEN num_lost + 1 ELSE num_lost
    /\ stage_trace' = TraceAfter(heap', {})
    /\ emitted' = Append(emitted, << >>)
    /\ UNCHANGED << notes, notes_on, dead_notes, note_sample, gen_state, sample_out, chunk,
                    chunk_buffer, callback_pc, applied, call_result, ticks, helper_call >>
    /\ UNCHANGED << drawn, returned >>

\* processor.note_off(note) for a note of pitch midi_note
NoteOff(midi_note) ==
    /\ num_issued < MaxEvents
    /\ notes_event_queue' =
           deque_append(notes_event_queue,
                        [event_type |-> NOTE_OFF, note |-> 0,
                         midi_note |-> midi_note, seq |-> num_issued + 1])
    /\ num_issued' = num_issued + 1
    /\ num_lost' = IF Len(notes_event_queue) = EVENT_QUEUE_MAX_SIZE
                   THEN num_lost + 1 ELSE num_lost
    /\ UNCHANGED << heap, notes, notes_on, dead_notes, note_sample, gen_state,
                    sample_out, chunk, chunk_buffer, callback_pc, applied,
                    stage_trace, emitted, call_result, ticks, helper_call >>
    /\ UNCHANGED << drawn, returned >>

(***************************************************************************)
(* The producer thread: fill_buffer drawing from Processor.sample_generator*)
(***************************************************************************)
\* fill_buffer is inside next(sample_generator)
GeneratorRuns ==
    /\ gen_state = "running"
    /\ Len(chunk) < AUDIO_STREAM_CHUNK_SIZE
    /\ ticks < MaxTicks

\* one pass of the event loop that pops a NOTE_ON
DrainNoteOn ==
    /\ GeneratorRuns
    /\ notes_event_queue # << >>
    /\ deque_popleft(notes_event_queue).item.event_type = NOTE_ON
    /\ LET note_event == deque_popleft(notes_event_queue).item
           id == note_event.note
           h == [heap EXCEPT ![id] = set_key_down(heap[id])]
       IN  /\ heap' = h
           /\ notes' = dict_setitem(notes, heap[id].midi_note, id)
           /\ notes_on' = set_add(notes_on, id, heap)
           /\ stage_trace' = TraceAfter(h, {id})
           /\ applied' = Append(applied, note_event)
    /\ notes_event_queue' = deque_popleft(notes_event_queue).rest
    /\ UNCHANGED << dead_notes, note_sample, gen_state, sample_out, chunk, chunk_buffer,
                    callback_pc, num_issued,
                    num_lost, emitted, call_result, ticks, helper_call >>
    /\ UNCHANGED << drawn, returned >>

\* one pass of the event loop that pops a NOTE_OFF
DrainNoteOff ==
    /\ GeneratorRuns
    /\ notes_event_queue # << >>
    /\ deque_popleft(notes_event_queue).item.event_type = NOTE_OFF
    /\ LET note_event == deque_popleft(notes_event_queue).item
           midi_note == note_event.midi_note
       IN  /\ applied' = Append(applied, note_event)
           /\ IF midi_note \notin DOMAIN notes
              THEN \* self._notes.pop raises
                   /\ gen_state' = "KeyError"
                   /\ UNCHANGED << heap, notes, stage_trace >>
              ELSE LET id == notes[midi_note]
                       raises == release_sample_idx_volume_map_raises(
                                     heap[id].release_ms, heap[id].volume)
                       h == [heap EXCEPT ![id] =
                                IF raises
                                THEN [heap[id] EXCEPT !.adsr_status = RELEASE]
                                ELSE set_key_up(heap[id])]
                   IN  /\ notes' = dict_pop(notes, midi_note)
                       /\ heap' = h
                       /\ stage_trace' = TraceAfter(h, {id})
                       /\ gen_state' = IF raises THEN "ZeroDivisionError"
                                       ELSE gen_state
    /\ notes_event_queue' = deque_popleft(notes_event_queue).rest
    /\ UNCHANGED << notes_on, dead_notes, note_sample, sample_out, chunk,
                    chunk_buffer,
                    callback_pc, num_issued,
                    num_lost, emitted, call_result, ticks, helper_call >>
    /\ UNCHANGED << drawn, returned >>

\* the loop "for note in notes_on", going through the notes in `order`
RECURSIVE play_notes(_, _)
play_notes(order, acc) ==
    IF order = << >> \/ acc.error # "none" THEN acc
    ELSE LET id == Head(order)
             r == Note_next(acc.heap[id])
             h == [acc.heap EXCEPT ![id] = r.note]
             dead == IF r.kind = "StopIteration"
                     THEN set_add(acc.dead_notes, id, acc.heap)
                     ELSE acc.dead_notes
             sample == IF r.kind = "NoteSample"
                       THEN [bound |-> TRUE, amplitude |-> r.amplitude,
                             volume |-> r.volume]
                       ELSE acc.note_sample
             em == IF r.kind = "NoteSample"
                   THEN [acc.emitted EXCEPT ![id] =
                            Append(@, [stage |-> acc.heap[id].adsr_status,
                                       amplitude |-> r.amplitude,
                                       volume |-> r.volume])]
                   ELSE acc.emitted
         IN  IF r.kind \in {"SynthError", "Hang"}
             THEN [acc EXCEPT !.heap = h, !.error = r.kind]
             ELSE IF ~sample.bound
             THEN [acc EXCEPT !.heap = h, !.dead_notes = dead,
                              !.error = "UnboundLocalError"]
             ELSE play_notes(Tail(order),
                    [ heap |-> h,
                      dead_notes |-> dead,
                      note_sample |-> sample,
                      emitted |-> em,
                      error |-> "none",
                      sample_volume_sum |-> acc.sample_volume_sum + sample.volume,
                      sample_amplitudes |->
                          acc.sample_amplitudes + sample.volume * sample.amplitude,
                      sample_volume_max |->
                          Max(acc.sample_volume_max, sample.volume) ])

\* the value the generator yields after the loop over notes_on
yielded(acc) ==
    IF acc.sample_volume_sum # 0
    THEN (acc.sample_amplitudes * acc.sample_volume_max)
             \div (acc.sample_volume_sum * ANALOGUE_MAX) + SILENCE
    ELSE SILENCE

\* the event queue is empty: clear the dead notes, play the others, yield
Play ==
    /\ GeneratorRuns
    /\ notes_event_queue = << >>
    /\ LET remaining == clear_dead_notes(notes_on, dead_notes, heap)
       IN  \E order \in Orders(remaining) :
             LET acc == play_notes(order,
                           [ heap |-> heap, dead_notes |-> {},
                             note_sample |-> note_sample, emitted |-> emitted,
                             error |-> "none", sample_volume_sum |-> 0,
                             sample_amplitudes |-> 0, sample_volume_max |-> 0 ])
             IN  /\ heap' = acc.heap
                 /\ notes_on' = remaining
                 /\ dead_notes' = acc.dead_notes
                 /\ note_sample' = acc.note_sample
                 /\ emitted' = acc.emitted
                 /\ stage_trace' = TraceAfter(acc.heap, {})
                 /\ IF acc.error # "none"
                    THEN /\ gen_state' = acc.error
                         /\ UNCHANGED << sample_out, ticks >>
                    ELSE /\ sample_out' = yielded(acc)
                         /\ ticks' = ticks + 1
                         /\ UNCHANGED gen_state
    /\ UNCHANGED << notes_event_queue, notes, chunk_buffer, callback_pc,
                    num_issued, num_lost, applied, call_result, helper_call,
                    returned >>

\* next(sample_generator) called by a consumer that keeps no chunk
Tick == Play /\ UNCHANGED << chunk, drawn >>

\* next(sample_amplitude) in get_samples, called by fill_buffer
GetSample ==
    /\ Play
    /\ chunk' = IF gen_state' = "running" THEN Append(chunk, sample_out') ELSE chunk
    /\ drawn' = IF gen_state' = "running" THEN Append(drawn, sample_out') ELSE drawn

\* fill_buffer: buf.put(chunk, block=True) once the chunk is complete
PutChunk ==
    /\ Len(chunk) = AUDIO_STREAM_CHUNK_SIZE
    /\ ~Queue_full(chunk_buffer)
    /\ chunk_buffer' = Append(chunk_buffer, chunk)
    /\ chunk' = << >>
    /\ UNCHANGED << heap, notes_event_queue, notes, notes_on, dead_notes,
                    note_sample, gen_state, sample_out, callback_pc,
                    num_issued, num_lost, applied, stage_trace,
                    emitted, call_result, ticks, helper_call >>
    /\ UNCHANGED << drawn, returned >>

(***************************************************************************)
(* The audio thread: stream_callback.                                      *)
(***************************************************************************)
\* the device invokes stream_callback, which calls chunk_buffer.get
CallbackInvoke ==
    /\ callback_pc = "idle"
    /\ callback_pc' = "waiting"
    /\ UNCHANGED << heap, notes_event_queue, notes, notes_on, dead_notes,
                    note_sample, gen_state, sample_out, chunk, chunk_buffer,
                    num_issued, num_lost, applied, stage_trace,
                    emitted, call_result, ticks, helper_call >>
    /\ UNCHANGED << drawn, returned >>

\* chunk_buffer.get(block=True) returns once a chunk is there
CallbackReturn ==
    /\ callback_pc = "waiting"
    /\ chunk_buffer # << >>
    /\ chunk_buffer' = Queue_get(chunk_buffer).rest
    /\ returned' = Append(returned, Queue_get(chunk_buffer).item)
    /\ callback_pc' = "idle"
    /\ UNCHANGED << heap, notes_event_queue, notes, notes_on, dead_notes,
                    note_sample, gen_state, sample_out, chunk, num_issued,
                    num_lost, applied, stage_trace, emitted,
                    call_result, ticks, helper_call >>
    /\ UNCHANGED drawn

\* the event source and the generator, drawn by a consumer that never stalls
Next ==
    \/ \E choice \in NoteChoices : NoteOn(choice.midi_note, choice.env)
    \/ \E midi_note \in MidiNotes : NoteOff(midi_note)
    \/ DrainNoteOn
    \/ DrainNoteOff
    \/ Tick

Spec == Init /\ [][Next]_vars

\* the same with the generator drawn by fill_buffer, and the audio callback
RingNext ==
    \/ \E midi_note \in MidiNotes : NoteOn(midi_note, RingEnv)
    \/ \E midi_note \in MidiNotes : NoteOff(midi_note)
    \/ DrainNoteOn
    \/ DrainNoteOff
    \/ GetSample
    \/ PutChunk
    \/ CallbackInvoke
    \/ CallbackReturn

RingSpec == Init /\ [][RingNext]_vars

(***************************************************************************)
(* One Note driven by hand, the way the Processor drives its notes:        *)
(* Synth.get_note, set_key_down, next() until StopIteration, and           *)
(* set_key_up once at any moment after set_key_down.                       *)
(***************************************************************************)
\* the exceptions after which the caller makes no further call
Raised == {"SynthValidationError", "ZeroDivisionError", "SynthError",
           "StopIteration", "Hang"}

\* note = Synth.get_note(midi_note, **env)
GetNote(midi_note, env) ==
    /\ call_result = NoCall
    /\ heap = << >>
    /\ call_result' = [call |-> "get_note", midi_note |-> midi_note, env |-> env,
                       result |-> get_note_result(midi_note, env)]
    /\ IF get_note_result(midi_note, env) = "Note"
       THEN /\ heap' = << new_note(midi_note, env) >>
            /\ stage_trace' = TraceAfter(heap', {})
            /\ emitted' = << << >> >>
       ELSE UNCHANGED << heap, stage_trace, emitted >>
    /\ UNCHANGED << notes_event_queue, notes, notes_on, dead_notes, note_sample,
                    gen_state, sample_out, chunk, chunk_buffer, callback_pc,
                    num_issued, num_lost, applied, ticks, helper_call >>
    /\ UNCHANGED << drawn, returned >>

\* note.set_key_down()
KeyDown ==
    /\ call_result.call = "get_note"
    /\ call_result.result = "Note"
    /\ heap' = [heap EXCEPT ![1] = set_key_down(heap[1])]
    /\ stage_trace' = TraceAfter(heap', {1})
    /\ call_result' = [call_result EXCEPT !.call = "set_key_down", !.result = "None"]
    /\ UNCHANGED << notes_event_queue, notes, notes_on, dead_notes, note_sample,
                    gen_state, sample_out, chunk, chunk_buffer, callback_pc,
                    num_issued, num_lost, applied, emitted, ticks, helper_call >>
    /\ UNCHANGED << drawn, returned >>

\* note.set_key_up()
KeyUp ==
    /\ call_result.call \in {"set_key_down", "next"}
    /\ call_result.result \notin Raised
    /\ heap[1].adsr_status \in {ATTACK, DECAY, SUSTAIN}
    /\ LET raises == release_sample_idx_volume_map_raises(
                         heap[1].release_ms, heap[1].volume)
       IN  /\ heap' = [heap EXCEPT ![1] =
                          IF raises THEN [heap[1] EXCEPT !.adsr_status = RELEASE]
                          ELSE set_key_up(heap[1])]
           /\ call_result' = [call_result EXCEPT
                                 !.call = "set_key_up",
                                 !.result = IF raises THEN "ZeroDivisionError"
                                            ELSE "None"]
    /\ stage_trace' = TraceAfter(heap', {1})
    /\ UNCHANGED << notes_event_queue, notes, notes_on, dead_notes, note_sample,
                    gen_state, sample_out, chunk, chunk_buffer, callback_pc,
                    num_issued, num_lost, applied, emitted, ticks, helper_call >>
    /\ UNCHANGED << drawn, returned >>

\* next(note)
NextSample ==
    /\ call_result.call \in {"set_key_down", "set_key_up", "next"}
    /\ call_result.result \notin Raised
    /\ heap[1].sample_idx < MaxNoteSamples
    /\ LET r == Note_next(heap[1])
       IN  /\ heap' = [heap EXCEPT ![1] = r.note]
           /\ emitted' = IF r.kind = "NoteSample"
                         THEN [emitted EXCEPT ![1] =
                                  Append(@, [stage |-> heap[1].adsr_status,
                                             amplitude |-> r.amplitude,
                                             volume |-> r.volume])]
                         ELSE emitted
           /\ call_result' = [call_result EXCEPT !.call = "next", !.result = r.kind]
    /\ stage_trace' = TraceAfter(heap', {})
    /\ UNCHANGED << notes_event_queue, notes, notes_on, dead_notes, note_sample,
                    gen_state, sample_out, chunk, chunk_buffer, callback_pc,
                    num_issued, num_lost, applied, ticks, helper_call >>
    /\ UNCHANGED << drawn, returned >>

\* note.set_key_up() on a note that is already in RELEASE, which the
\* Processor never does: its NOTE_OFF branch pops the note from _notes
KeyUpAgain ==
    /\ call_result.call \in {"set_key_up", "next"}
    /\ call_result.result \notin Raised
    /\ heap[1].adsr_status = RELEASE
    /\ Cardinality({ i \in 1..Len(stage_trace[1]) : stage_trace[1][i] = RELEASE }) = 1
    /\ LET raises == release_sample_idx_volume_map_raises(
                         heap[1].release_ms, heap[1].volume)
       IN  /\ heap' = [heap EXCEPT ![1] =
                          IF raises THEN [heap[1] EXCEPT !.adsr_status = RELEASE]
                          ELSE set_key_up(heap[1])]
           /\ call_result' = [call_result EXCEPT
                                 !.call = "set_key_up",
                                 !.result = IF raises THEN "ZeroDivisionError"
                                            ELSE "None"]
    /\ stage_trace' = TraceAfter(heap', {1})
    /\ UNCHANGED << notes_event_queue, notes, notes_on, dead_notes, note_sample,
                    gen_state, sample_out, chunk, chunk_buffer, callback_pc,
                    num_issued, num_lost, applied, emitted, ticks, helper_call >>
    /\ UNCHANGED << drawn, returned >>

\* next(note) on a note that is OFF, before set_key_down or after the call
\* that raised StopIteration, which the Processor never does
NextWhileOff ==
    /\ call_result.result \in {"Note", "StopIteration"}
    /\ heap[1].adsr_status = OFF
    /\ LET r == Note_next(heap[1])
       IN  /\ heap' = [heap EXCEPT ![1] = r.note]
           /\ emitted' = IF r.kind = "NoteSample"
                         THEN [emitted EXCEPT ![1] =
                                  Append(@, [stage |-> heap[1].adsr_status,
                                             amplitude |-> r.amplitude,
                                             volume |-> r.volume])]
                         ELSE emitted
           /\ call_result' = [call_result EXCEPT !.call = "next", !.result = r.kind]
    /\ stage_trace' = TraceAfter(heap', {})
    /\ UNCHANGED << notes_event_queue, notes, notes_on, dead_notes, note_sample,
                    gen_state, sample_out, chunk, chunk_buffer, callback_pc,
                    num_issued, num_lost, applied, ticks, helper_call >>
    /\ UNCHANGED << drawn, returned >>

NoteNext ==
    \/ \E midi_note \in NotePitches :
       \E attack_ms, decay_ms, release_ms \in EnvMilliseconds :
       \E sustain_level \in EnvSustainLevels :
          GetNote(midi_note, [attack_ms |-> attack_ms, decay_ms |-> decay_ms,
                              release_ms |-> release_ms,
                              sustain_level |-> sustain_level])
    \/ KeyDown
    \/ KeyUp
    \/ NextSample
    \/ KeyUpAgain
    \/ NextWhileOff

NoteSpec == Init /\ [][NoteNext]_vars

(***************************************************************************)
(* The note helpers of helpers.py called by hand, as keyboard.py calls     *)
(* them to build KEYBOARD_NOTE_MAPPING.                                    *)
(***************************************************************************)
\* midi_note = letter_note_to_midi_note(letter_note)
CallLetterNoteToMidiNote(letter_note) ==
    /\ helper_call = NoHelperCall
    /\ helper_call' = [call |-> "letter_note_to_midi_note",
                       letter_note |-> letter_note,
                       midi_note |-> letter_note_to_midi_note(letter_note).midi_note,
                       frequency |-> 0,
                       settings |-> NoHelperCall.settings,
                       maxsize |-> 0,
                       result |-> letter_note_to_midi_note(letter_note).result]
    /\ UNCHANGED << heap, notes_event_queue, notes, notes_on, dead_notes,
                    note_sample, gen_state, sample_out, chunk, chunk_buffer,
                    callback_pc, num_issued, num_lost, applied, stage_trace,
                    emitted, call_result, ticks >>
    /\ UNCHANGED << drawn, returned >>

\* frequency = midi_note_to_frequency(midi_note)
CallMidiNoteToFrequency ==
    /\ helper_call.call = "letter_note_to_midi_note"
    /\ helper_call.result = "int"
    /\ helper_call' = [helper_call EXCEPT
                         !.call = "midi_note_to_frequency",
                         !.frequency = midi_note_to_frequency(helper_call.midi_note),
                         !.result = "float"]
    /\ UNCHANGED << heap, notes_event_queue, notes, notes_on, dead_notes,
                    note_sample, gen_state, sample_out, chunk, chunk_buffer,
                    callback_pc, num_issued, num_lost, applied, stage_trace,
                    emitted, call_result, ticks >>
    /\ UNCHANGED << drawn, returned >>

\* get_pyaudio_stream up to chunk_buffer = queue.Queue(maxsize=buffer_chunks)
CallGetPyaudioStream(samples_per_second, buffer_ms, chunk_size) ==
    /\ helper_call = NoHelperCall
    /\ helper_call' = [NoHelperCall EXCEPT
                         !.call = "get_pyaudio_stream",
                         !.settings = [samples_per_second |-> samples_per_second,
                                       buffer_ms |-> buffer_ms,
                                       chunk_size |-> chunk_size],
                         !.maxsize = get_buffer_chunks(samples_per_second,
                                                       buffer_ms, chunk_size),
                         !.result = "Stream"]
    /\ UNCHANGED << heap, notes_event_queue, notes, notes_on, dead_notes,
                    note_sample, gen_state, sample_out, chunk, chunk_buffer,
                    callback_pc, num_issued, num_lost, applied, stage_trace,
                    emitted, call_result, ticks >>
    /\ UNCHANGED << drawn, returned >>

HelperNext ==
    \/ \E letter_note \in LetterNotes : CallLetterNoteToMidiNote(letter_note)
    \/ CallMidiNoteToFrequency
    \/ \E samples_per_second \in SettingsSamplesPerSecond,
          buffer_ms \in SettingsBufferMs,
          chunk_size \in SettingsChunkSizes :
            CallGetPyaudioStream(samples_per_second, buffer_ms, chunk_size)

HelperSpec == Init /\ [][HelperNext]_vars

(***************************************************************************)
(* Properties.                                                             *)
(***************************************************************************)
\* the step pops one event off the queue and applies it
Drains == Len(applied') = Len(applied) + 1

\* the step is a call of note_on or note_off
Issues == num_issued' = num_issued + 1

\* C1: a NOTE_OFF popped for a pitch that has no entry in _notes is ignored:
\* the generator keeps running and the notes, _notes and notes_on are as before
C1_UnknownNoteOffIgnored ==
    [][ ( /\ Drains
          /\ Head(notes_event_queue).event_type = NOTE_OFF
          /\ Head(notes_event_queue).midi_note \notin DOMAIN notes )
        => ( /\ gen_state' = "running"
             /\ notes' = notes
             /\ notes_on' = notes_on
             /\ heap' = heap ) ]_vars

overflow_counter == 0

\* C3: the overflow counter equals the number of events lost to overflow
C3_OverflowCounted == overflow_counter = num_lost

\* C4: the generator applies the events in the order they were issued
C4_AppliedInOrder ==
    \A i, j \in 1..Len(applied) : i < j => applied[i].seq < applied[j].seq

\* a NOTE_ON and a later NOTE_OFF of its pitch were applied after the queue
\* had overflowed
C4_Witness ==
    /\ num_lost > 0
    /\ \E i, j \in 1..Len(applied) :
          /\ i < j
          /\ applied[i].event_type = NOTE_ON
          /\ applied[j].event_type = NOTE_OFF
          /\ applied[i].midi_note = applied[j].midi_note

\* C5: two notes of one pitch and one envelope, both struck and neither
\* released, are both in notes_on
C5_RetriggerForks ==
    \A i, j \in 1..Len(applied) :
        ( /\ i < j
          /\ applied[i].event_type = NOTE_ON
          /\ applied[j].event_type = NOTE_ON
          /\ note_key(heap[applied[i].note]) = note_key(heap[applied[j].note])
          /\ \A k \in (i + 1)..Len(applied) : applied[k].event_type = NOTE_ON )
        => {applied[i].note, applied[j].note} \subseteq notes_on

\* C6: the callback is never inside chunk_buffer.get with the buffer empty
C6_CallbackNeverBlocks == ~(callback_pc = "waiting" /\ chunk_buffer = << >>)

\* C7: the generator never raises
C7_GeneratorNeverRaises == gen_state = "running"

IsPrefix(s, t) == Len(s) <= Len(t) /\ \A i \in 1..Len(s) : s[i] = t[i]

\* C8: the stages a note enters are OFF, ATTACK, DECAY, SUSTAIN, RELEASE, OFF
\* in this order, DECAY and SUSTAIN left out only when RELEASE came first
C8_StagesInOrder ==
    \A id \in DOMAIN heap :
        \/ IsPrefix(stage_trace[id], << OFF, ATTACK, DECAY, SUSTAIN, RELEASE, OFF >>)
        \/ IsPrefix(stage_trace[id], << OFF, ATTACK, DECAY, RELEASE, OFF >>)
        \/ IsPrefix(stage_trace[id], << OFF, ATTACK, RELEASE, OFF >>)

\* a note went through all the stages
C8_Witness ==
    \E id \in DOMAIN heap :
        stage_trace[id] = << OFF, ATTACK, DECAY, SUSTAIN, RELEASE, OFF >>

\* the number of samples next() returned for note id when called in `stage`
EmittedIn(id, stage) ==
    Cardinality({ i \in 1..Len(emitted[id]) : emitted[id][i].stage = stage })

Entered(id, stage) == \E i \in 1..Len(stage_trace[id]) : stage_trace[id][i] = stage

\* C9: a note that left ATTACK for DECAY returned num_attack_samples samples
\* in ATTACK, one that left DECAY for SUSTAIN num_decay_samples in DECAY, and
\* one that left RELEASE for OFF num_release_samples in RELEASE
C9_StageLengths ==
    \A id \in DOMAIN heap :
        /\ Entered(id, DECAY)
             => EmittedIn(id, ATTACK) = num_attack_samples(heap[id])
        /\ Entered(id, SUSTAIN)
             => EmittedIn(id, DECAY) = num_decay_samples(heap[id])
        /\ (Entered(id, RELEASE) /\ heap[id].adsr_status = OFF)
             => EmittedIn(id, RELEASE) = num_release_samples(heap[id])

\* C10: the volumes a note returns in RELEASE never rise
C10_ReleaseMonotone ==
    \A id \in DOMAIN heap :
        \A i, j \in 1..Len(emitted[id]) :
            ( /\ i < j
              /\ emitted[id][i].stage = RELEASE
              /\ emitted[id][j].stage = RELEASE )
            => emitted[id][j].volume <= emitted[id][i].volume

\* the positions of the samples next() returned for note id when in `stage`
IndicesIn(id, stage) == { i \in 1..Len(emitted[id]) : emitted[id][i].stage = stage }

\* C11: the volumes a note returns in ATTACK never fall and start at 0, and a
\* note that went on to DECAY had reached ANALOGUE_MAX: in a sample returned
\* in ATTACK, or at the latest in the first one returned in DECAY
C11_AttackRamp ==
    \A id \in DOMAIN heap :
        /\ \A i, j \in IndicesIn(id, ATTACK) :
               i < j => emitted[id][i].volume <= emitted[id][j].volume
        /\ IndicesIn(id, ATTACK) # {} => emitted[id][1].volume = 0
        /\ IndicesIn(id, DECAY) # {} =>
               \E i \in IndicesIn(id, ATTACK) \cup IndicesIn(id, DECAY) :
                   /\ emitted[id][i].volume = ANALOGUE_MAX
                   /\ \A j \in IndicesIn(id, DECAY) : i <= j

\* C12: the volumes a note returns in DECAY never rise, and every volume it
\* returns in SUSTAIN is its sustain_level
C12_DecaySustain ==
    \A id \in DOMAIN heap :
        /\ \A i, j \in IndicesIn(id, DECAY) :
               i < j => emitted[id][j].volume <= emitted[id][i].volume
        /\ \A i \in IndicesIn(id, SUSTAIN) :
               emitted[id][i].volume = heap[id].sustain_level

\* the step is the generator yielding a sample
Yields == ticks' = ticks + 1

\* C13: a sample yielded when no note is left in notes_on is 128
C13_SilenceIs128 ==
    [][ (Yields /\ notes_on' = {}) => sample_out' = 128 ]_vars

\* C14: a sample yielded when one note is in notes_on and returned a sample
\* of volume above 0 is that sample's amplitude plus the midpoint, be the
\* midpoint 128 or the generator's 127
C14_SingleVoicePreserved ==
    [][ \A id \in notes_on' :
          ( /\ Yields
            /\ notes_on' = {id}
            /\ Len(emitted'[id]) = Len(emitted[id]) + 1
            /\ note_sample'.volume > 0 )
          => sample_out' - note_sample'.amplitude \in {SILENCE, 128} ]_vars

\* C15: every sample yielded is a byte and is at most 127 away from 128
C15_NeverClips ==
    /\ sample_out \in 0..255
    /\ sample_out - 128 <= 127
    /\ 128 - sample_out <= 127

\* the envelope arguments are within the ranges the validators allow
ValidEnv(env) ==
    /\ env.attack_ms >= 0
    /\ env.decay_ms >= 0
    /\ env.release_ms >= 0
    /\ env.sustain_level \in ANALOGUE_MIN..ANALOGUE_MAX

\* the envelope arguments hold a stage of 0 ms
HasZeroMs(env) == env.attack_ms = 0 \/ env.decay_ms = 0 \/ env.release_ms = 0

\* C16: a note of audible pitch built with a stage of 0 ms and otherwise valid
\* arguments is constructed, no call on it raises, and each of its stages is
\* at least one sample long
C16_ZeroMsIsOneSample ==
    ( /\ call_result.call # "none"
      /\ samples_per_cycle(call_result.midi_note) >= 2
      /\ ValidEnv(call_result.env)
      /\ HasZeroMs(call_result.env) )
    => /\ call_result.result \notin {"SynthValidationError", "ZeroDivisionError"}
       /\ heap # << >>
       /\ num_attack_samples(heap[1]) >= 1
       /\ num_decay_samples(heap[1]) >= 1
       /\ num_release_samples(heap[1]) >= 1

\* C17: get_note raises the validation error and builds no note when an
\* envelope argument is out of range, and returns a note when all are in range
C17_FactoryValidates ==
    call_result.call = "get_note"
    => /\ ~ValidEnv(call_result.env)
            => (call_result.result = "SynthValidationError" /\ heap = << >>)
       /\ ValidEnv(call_result.env)
            => (call_result.result = "Note" /\ heap # << >>)

\* C18: get_note for a pitch with fewer than 2 samples per cycle, with valid
\* envelope arguments of more than 0 ms, gives the error NoteTooHigh and
\* builds no note
C18_NoteTooHigh ==
    ( /\ call_result.call # "none"
      /\ ValidEnv(call_result.env)
      /\ ~HasZeroMs(call_result.env)
      /\ samples_per_cycle(call_result.midi_note) < 2 )
    => (call_result.result = "NoteTooHigh" /\ heap = << >>)

\* the NOTE_ON events the generator has applied
NoteOnsApplied == { i \in 1..Len(applied) : applied[i].event_type = NOTE_ON }

\* the notes whose RELEASE has run to its end
ReleasesCompleted ==
    { id \in DOMAIN heap : Entered(id, RELEASE) /\ heap[id].adsr_status = OFF }

ProducerBlocked ==
    /\ Len(chunk) = AUDIO_STREAM_CHUNK_SIZE
    /\ Len(chunk_buffer) = buffer_chunks

\* C20: chunk_buffer never holds more than buffer_chunks chunks, and while it
\* is full and fill_buffer has a chunk to put, the producer does nothing: no
\* chunk is put, no sample drawn and no event popped
C20_ProducerBlocksWhenFull ==
    [][ /\ Len(chunk_buffer') <= buffer_chunks
        /\ ProducerBlocked =>
              /\ Len(chunk_buffer') <= Len(chunk_buffer)
              /\ chunk' = chunk
              /\ ticks' = ticks
              /\ applied' = applied ]_vars

\* the producer is blocked, and the callback is not taking a chunk
C20_Witness == ProducerBlocked /\ callback_pc = "idle"

\* the distance between two numbers
Distance(a, b) == IF a >= b THEN a - b ELSE b - a

\* the frequency of the note named letter_note has been computed
FrequencyOf(letter_note) ==
    /\ helper_call.call = "midi_note_to_frequency"
    /\ helper_call.letter_note = letter_note

\* C21 as claimed: the frequency computed for "A4" is within 0.1 Hz of 440 Hz
C21_A4Is440 ==
    FrequencyOf(<< "A", "4" >>) => Distance(helper_call.frequency, 440000) <= 100

\* C21 as amended: the frequency computed for "A4" is within 0.1 Hz of
\* 220 Hz, and the one computed for "A5" within 0.1 Hz of 440 Hz
C21_A4Is220 ==
    /\ FrequencyOf(<< "A", "4" >>) => Distance(helper_call.frequency, 220000) <= 100
    /\ FrequencyOf(<< "A", "5" >>) => Distance(helper_call.frequency, 440000) <= 100

\* the frequency of "A4" has been computed from MIDI note 57
C21_Witness == FrequencyOf(<< "A", "4" >>) /\ helper_call.midi_note = 57

\* the positions after the first of letter_note that hold a character of `chars`
PositionsOf(letter_note, chars) ==
    { i \in 2..Len(letter_note) : letter_note[i] \in chars }

\* letter_note_to_midi_note has been called on helper_call.letter_note
LetterNoteConverted ==
    helper_call.call \in {"letter_note_to_midi_note", "midi_note_to_frequency"}

\* C22: "C5" gives 60 and "C6" gives 72, and a letter followed, in any order,
\* by sharps, flats and one octave digit d gives the note of the letter plus
\* 12 * (d - 5), plus 1 for each sharp and less 1 for each flat
C22_LetterNoteValue ==
    LET letter_note == helper_call.letter_note
    IN  /\ (LetterNoteConverted /\ letter_note = << "C", "5" >>)
              => helper_call.midi_note = 60
        /\ (LetterNoteConverted /\ letter_note = << "C", "6" >>)
              => helper_call.midi_note = 72
        /\ ( /\ LetterNoteConverted
             /\ letter_note[1] \in {"A", "B", "C", "D", "E", "F", "G", "a"}
             /\ \A i \in 2..Len(letter_note) :
                   letter_note[i] \in {"#", "b"} \cup Digits
             /\ Cardinality(PositionsOf(letter_note, Digits)) = 1 )
           => \E i \in PositionsOf(letter_note, Digits) :
                 helper_call.midi_note =
                     LETTER_TO_MIDI_NOTE_MAP[str_upper(letter_note[1])]
                       + 12 * (int_of_digit(letter_note[i]) - 5)
                       + Cardinality(PositionsOf(letter_note, {"#"}))
                       - Cardinality(PositionsOf(letter_note, {"b"}))

\* a flat written after the octave digit has been applied
C22_Witness ==
    /\ helper_call.call = "letter_note_to_midi_note"
    /\ helper_call.letter_note = << "B", "5", "b" >>
    /\ helper_call.midi_note = 70

\* the sum of the values of a function
RECURSIVE SumOf(_)
SumOf(f) ==
    IF DOMAIN f = {} THEN 0
    ELSE LET x == CHOOSE x \in DOMAIN f : TRUE
         IN  f[x] + SumOf([y \in DOMAIN f \ {x} |-> f[y]])

\* the notes that returned a sample in the step
Emitters == { id \in DOMAIN heap : Len(emitted'[id]) = Len(emitted[id]) + 1 }

\* the sample a note returned in the step
Returned(id) == emitted'[id][Len(emitted'[id])]

\* the step is a pass of the play loop: it yields a sample or raises in the loop
Plays == Yields \/ (gen_state = "running" /\ gen_state' \in {"UnboundLocalError", "SynthError", "Hang"})

\* (amp_sum * vol_max) / (vol_sum * V_MAX) + midpoint over the notes that
\* returned a sample in the step, and the midpoint when vol_sum is 0
MixOfEmitters(midpoint) ==
    LET amp_sum == SumOf([id \in Emitters |->
                             Returned(id).amplitude * Returned(id).volume])
        vol_sum == SumOf([id \in Emitters |-> Returned(id).volume])
        vol_max == IF Emitters = {} THEN 0
                   ELSE CHOOSE v \in { Returned(id).volume : id \in Emitters } :
                            \A id \in Emitters : Returned(id).volume <= v
    IN  IF vol_sum = 0 THEN midpoint
        ELSE (amp_sum * vol_max) \div (vol_sum * ANALOGUE_MAX) + midpoint

\* C23: in a pass of the play loop in which a note raises StopIteration the
\* generator does not raise, the note is put into dead_notes, and the sample
\* yielded is the mix of the notes that returned a sample, about the
\* midpoint 128 or the generator's 127
C23_ExhaustedSkipped ==
    [][ (Plays /\ \E id \in notes_on' :
                     heap[id].adsr_status = RELEASE /\ heap'[id].adsr_status = OFF)
        => /\ gen_state' = "running"
           /\ \A id \in notes_on' :
                 (heap[id].adsr_status = RELEASE /\ heap'[id].adsr_status = OFF)
                   => id \in dead_notes'
           /\ sample_out' \in {MixOfEmitters(SILENCE), MixOfEmitters(128)} ]_vars

\* C28: a sample yielded when the volumes of the notes that returned a
\* sample do not add up to 0 is their mix about the midpoint 128
C28_MixFormula ==
    [][ (Yields /\ SumOf([id \in Emitters |-> Returned(id).volume]) # 0)
        => sample_out' = MixOfEmitters(128) ]_vars

\* the step pops a NOTE_OFF whose pitch has an entry in _notes
DrainsKnownNoteOff ==
    /\ Drains
    /\ Head(notes_event_queue).event_type = NOTE_OFF
    /\ Head(notes_event_queue).midi_note \in DOMAIN notes

\* C24: popping a NOTE_OFF whose pitch has an entry in _notes calls
\* set_key_up, without error, on that note and on no other, removes the
\* entry, and leaves the note in notes_on to be played on
C24_NoteOffReleasesVoice ==
    [][ DrainsKnownNoteOff
        => LET midi_note == Head(notes_event_queue).midi_note
               id == notes[midi_note]
           IN  /\ gen_state' = "running"
               /\ heap'[id].adsr_status = RELEASE
               /\ \A other \in DOMAIN heap \ {id} : heap'[other] = heap[other]
               /\ DOMAIN notes' = DOMAIN notes \ {midi_note}
               /\ \A m \in DOMAIN notes' : notes'[m] = notes[m]
               /\ id \in notes_on' ]_vars

\* the notes on which the step called next()
Ticked == { id \in DOMAIN heap : heap'[id].sample_idx # heap[id].sample_idx }

\* C25: a note on which the play loop calls next() is not OFF, has had
\* set_key_down applied, and did not raise StopIteration in the pass before
C25_NeverTicksOff ==
    [][ \A id \in Ticked :
          /\ heap[id].adsr_status # OFF
          /\ Entered(id, ATTACK)
          /\ id \notin dead_notes ]_vars

\* a note has completed its RELEASE and has been removed from notes_on, and a
\* note that is still in notes_on has been played
C25_Witness ==
    /\ ReleasesCompleted # {}
    /\ ReleasesCompleted \cap notes_on = {}
    /\ \E id \in notes_on : emitted[id] # << >>
    /\ gen_state = "running"

\* the step is note.set_key_up() returning, on the one note of NoteSpec
KeyUpReturns == call_result'.call = "set_key_up" /\ call_result'.result = "None"

\* the step is next(note) returning a sample, on the one note of NoteSpec
NextReturns == call_result'.call = "next" /\ call_result'.result = "NoteSample"

\* C26: set_key_up in ATTACK or DECAY leaves the volume as it is and starts
\* the release map at that volume, and the first sample returned in RELEASE
\* has the volume the release map starts at
C26_ReleaseFromCurrentVolume ==
    [][ /\ (KeyUpReturns /\ heap[1].adsr_status \in {ATTACK, DECAY})
           => /\ heap'[1].volume = heap[1].volume
              /\ IF heap[1].volume = 0
                 THEN heap'[1].release_sample_idx_volume_map = EmptyMap
                 ELSE /\ 0 \in DOMAIN heap'[1].release_sample_idx_volume_map
                      /\ heap'[1].release_sample_idx_volume_map[0] = heap[1].volume
        /\ ( /\ NextReturns
             /\ heap[1].adsr_status = RELEASE
             /\ heap[1].release_sample_idx = 0 )
           => /\ Returned(1).volume = heap[1].volume
              /\ heap[1].release_sample_idx_volume_map # EmptyMap
                   => Returned(1).volume = heap[1].release_sample_idx_volume_map[0]
      ]_vars

\* a note released in ATTACK returned, as its first sample in RELEASE, a
\* volume that is neither 0 nor its sustain_level nor ANALOGUE_MAX
C26_Witness ==
    /\ heap # << >>
    /\ IsPrefix(<< OFF, ATTACK, RELEASE >>, stage_trace[1])
    /\ \E i \in IndicesIn(1, RELEASE) :
          /\ \A j \in IndicesIn(1, RELEASE) : i <= j
          /\ emitted[1][i].volume \notin {0, heap[1].sustain_level, ANALOGUE_MAX}

\* C27: every volume a note returns is within ANALOGUE_MIN..ANALOGUE_MAX
C27_VolumeInRange ==
    \A id \in DOMAIN heap :
        \A i \in 1..Len(emitted[id]) :
            emitted[id][i].volume \in ANALOGUE_MIN..ANALOGUE_MAX

\* a note returned ANALOGUE_MAX, was released there, and returned a volume
\* between 0 and ANALOGUE_MAX in RELEASE
C27_Witness ==
    /\ heap # << >>
    /\ \E i \in IndicesIn(1, RELEASE) : emitted[1][i].volume = ANALOGUE_MAX
    /\ \E i \in IndicesIn(1, RELEASE) :
          emitted[1][i].volume \in 1..(ANALOGUE_MAX - 1)

\* C29: set_key_up on a note in RELEASE returns and leaves the stage, the
\* release counter, the volume and the entries of the release map that are
\* still to be looked up as they were (envelopes without a 0 ms stage)
C29_SecondKeyUpIgnored ==
    [][ ( /\ call_result'.call = "set_key_up"
          /\ ~HasZeroMs(call_result.env)
          /\ heap[1].adsr_status = RELEASE )
        => /\ call_result'.result = "None"
           /\ heap'[1].adsr_status = heap[1].adsr_status
           /\ heap'[1].release_sample_idx = heap[1].release_sample_idx
           /\ heap'[1].volume = heap[1].volume
           /\ \A i \in (heap[1].release_sample_idx + 1)..num_release_samples(heap[1]) :
                 /\ i \in DOMAIN heap'[1].release_sample_idx_volume_map
                      <=> i \in DOMAIN heap[1].release_sample_idx_volume_map
                 /\ i \in DOMAIN heap[1].release_sample_idx_volume_map
                      => heap'[1].release_sample_idx_volume_map[i]
                           = heap[1].release_sample_idx_volume_map[i] ]_vars

\* C30: next() on a note of audible pitch, with no 0 ms stage, that is OFF,
\* before set_key_down or after the call that raised StopIteration, raises
\* StopIteration
C30_OffRaisesStopIteration ==
    [][ ( /\ call_result'.call = "next"
          /\ call_result.call # "none"
          /\ samples_per_cycle(call_result.midi_note) >= 2
          /\ ~HasZeroMs(call_result.env)
          /\ heap[1].adsr_status = OFF )
        => call_result'.result = "StopIteration" ]_vars

\* ceil(buffer_ms * S / 1000 / F), and 1 when that is 0
CeilChunks(settings) ==
    LET ceil == (settings.buffer_ms * settings.samples_per_second
                     + 1000 * settings.chunk_size - 1)
                  \div (1000 * settings.chunk_size)
    IN  IF ceil = 0 THEN 1 ELSE ceil

\* C31: chunk_buffer is created with maxsize ceil(buffer_ms * S / 1000 / F)
\* chunks, and with maxsize 1 when that value is 0
C31_RingCapacityIsCeil ==
    helper_call.call = "get_pyaudio_stream"
    => helper_call.maxsize = CeilChunks(helper_call.settings)

\* the calls of next() a note in RELEASE has left before the one that ends it
ReleaseTicksLeft(note) ==
    Max(1, num_release_samples(note)) - note.release_sample_idx

\* C32: a note on which set_key_up has been applied is exhausted after
\* finitely many calls of next(): while it is in RELEASE the number of calls
\* it has had since set_key_up is below its number of release samples (below
\* 1 for release_ms = 0), so the count that ends it is still ahead
C32_ReleasedVoiceExhausts ==
    \A id \in DOMAIN heap :
        heap[id].adsr_status = RELEASE => ReleaseTicksLeft(heap[id]) > 0

\* what a pass of the play loop over the notes left after the purge gives when
\* the for loop takes them in `order`: the sample yielded, or the error raised
PassResult(order) ==
    LET acc == play_notes(order,
                   [ heap |-> heap, dead_notes |-> {},
                     note_sample |-> note_sample, emitted |-> emitted,
                     error |-> "none", sample_volume_sum |-> 0,
                     sample_amplitudes |-> 0, sample_volume_max |-> 0 ])
    IN  IF acc.error # "none"
        THEN [error |-> acc.error, sample |-> SILENCE]
        ELSE [error |-> "none", sample |-> yielded(acc)]

\* C33: whenever the generator is about to play its notes, every order in
\* which the for loop may take notes_on gives the same sample, also on passes
\* where notes raise StopIteration
C33_OrderIndependent ==
    (GeneratorRuns /\ notes_event_queue = << >>)
    => \A first, second \in Orders(clear_dead_notes(notes_on, dead_notes, heap)) :
          PassResult(first) = PassResult(second)

\* the notes the event at the head of the queue addresses: the note of a
\* NOTE_ON, the note _notes holds for the pitch of a NOTE_OFF
Addressed ==
    LET note_event == Head(notes_event_queue)
    IN  IF note_event.event_type = NOTE_ON THEN {note_event.note}
        ELSE IF note_event.midi_note \in DOMAIN notes
             THEN {notes[note_event.midi_note]}
             ELSE {}

\* C34: popping a NOTE_ON or NOTE_OFF of pitch p leaves every note but the
\* one it addresses as it was (stage, counters, volume), and leaves the
\* entries of _notes for every other pitch as they were
C34_DrainFrame ==
    [][ Drains
        => /\ \A id \in DOMAIN heap \ Addressed : heap'[id] = heap[id]
           /\ \A midi_note \in (DOMAIN notes \cup DOMAIN notes')
                                 \ {Head(notes_event_queue).midi_note} :
                 /\ midi_note \in DOMAIN notes
                 /\ midi_note \in DOMAIN notes'
                 /\ notes'[midi_note] = notes[midi_note] ]_vars

\* a NOTE_OFF has just been applied to a note while a note of another pitch,
\* already sounding, is in notes_on and in _notes
C34_Witness ==
    /\ applied # << >>
    /\ applied[Len(applied)].event_type = NOTE_OFF
    /\ \E id, other \in notes_on :
          /\ heap[id].midi_note = applied[Len(applied)].midi_note
          /\ heap[id].adsr_status = RELEASE
          /\ heap[id].release_sample_idx = 0
          /\ heap[other].midi_note # heap[id].midi_note
          /\ heap[other].adsr_status \in {ATTACK, DECAY, SUSTAIN}
          /\ heap[other].volume > 0
          /\ heap[other].midi_note \in DOMAIN notes
          /\ notes[heap[other].midi_note] = other

\* the samples of a sequence of chunks, one chunk after the other
RECURSIVE JoinChunks(_)
JoinChunks(chunks) ==
    IF chunks = << >> THEN << >> ELSE Head(chunks) \o JoinChunks(Tail(chunks))

\* C35: every chunk stream_callback returned holds AUDIO_STREAM_CHUNK_SIZE
\* samples, and the chunks returned, followed by those waiting in chunk_buffer
\* and the chunk being filled, are the samples drawn from the generator in
\* the order they were drawn: none lost, none twice, none out of place
C35_ChunksAreTheSamples ==
    /\ \A i \in 1..Len(returned) : Len(returned[i]) = AUDIO_STREAM_CHUNK_SIZE
    /\ JoinChunks(returned) \o JoinChunks(chunk_buffer) \o chunk = drawn

\* the callback has returned two chunks that differ, while a third waits
C35_Witness ==
    /\ Len(returned) >= 2
    /\ returned[1] # returned[2]
    /\ chunk_buffer # << >>
    /\ chunk_buffer[1] # returned[2]

====
